---- MODULE Spec2Model ----
(***************************************************************************)
(* Model of the chatbot's inference-session lifecycle:                     *)
(*   app/models/ov_inference.py   OpenVINOInferenceEngine                  *)
(*   app/models/model_manager.py  ModelManager                             *)
(*   app/api/websocket.py         WebSocketManager and the chat handlers   *)
(*   app/api/chat.py              the HTTP chat and reload endpoints       *)
(*                                                                         *)
(* The server is one asyncio event loop: a handler runs without            *)
(* interruption from one suspension point (a websocket receive, a          *)
(* websocket send, asyncio.sleep) to the next.  Each action below is one   *)
(* such uninterrupted stretch of one handler.                              *)
(***************************************************************************)
EXTENDS Integers, Sequences, FiniteSets, TLC

(***************************************************************************)
(* Bounds of the model.                                                    *)
(***************************************************************************)
NumWS == 2              \* websocket connections
MaxRequests == 2        \* client requests (websocket messages + HTTP chats)
MaxEngines == 3         \* OpenVINOInferenceEngine objects ever constructed
DefaultMaxTokens == 2   \* config.inference.max_tokens, scaled down

WS == 1..NumWS
SessionIds == 1..MaxRequests
EngineIds == 1..MaxEngines

(***************************************************************************)
(* Optional[...] parameters: None is the empty tuple, a value v is <<v>>.  *)
(***************************************************************************)
None == << >>
Some(v) == << v >>

\* Python's `x or default` on an Optional number: None and 0 are both falsy.
OrDefault(opt, default) == IF opt = None \/ opt[1] = 0 THEN default ELSE opt[1]

VARIABLES
    phase,               \* "boot" until the lifespan startup has run, then "serving"
    OPENVINO_AVAILABLE,  \* ov_inference.py module flag, fixed at import
    hw_device,           \* config.hardware.device (shared, mutable)
    is_initialized,      \* ModelManager.is_initialized
    inference_engine,    \* ModelManager.inference_engine: 0 is None, else an engine id
    engines,             \* engine id -> [is_loaded, model, tokenizer]
    nEngines,            \* engine objects constructed so far
    lastInit,            \* what the last ModelManager.initialize pass did
    active_connections,  \* WebSocketManager.active_connections (a list)
    transport,           \* per websocket: "new", "open" or "closed" (client side)
    handler,             \* per websocket: where websocket_chat_endpoint is
    inbox,               \* per websocket: messages sent by the client, not yet received
    frames,              \* per websocket: every frame send_message was given, with its fate
    sess,                \* session id -> the generation request's record
    nSess,               \* sessions created so far
    nReq                 \* client requests issued so far

vars == << phase, OPENVINO_AVAILABLE, hw_device, is_initialized, inference_engine,
           engines, nEngines, lastInit, active_connections, transport, handler,
           inbox, frames, sess, nSess, nReq >>

mgrVars == << hw_device, is_initialized, inference_engine, engines, nEngines, lastInit >>
wsVars == << active_connections, transport, handler, inbox, frames >>

(***************************************************************************)
(* OpenVINOInferenceEngine: construction, initialize, _load_model          *)
(***************************************************************************)
Devices == {"NPU", "CPU"}

\* OpenVINOInferenceEngine.__init__
NewEngine == [is_loaded |-> FALSE, model |-> "none", tokenizer |-> FALSE]

\* What the environment answers during one initialization pass.
InitEnvs == [diskOK : BOOLEAN, npuAvail : BOOLEAN, tokOK : BOOLEAN,
             npuOK : BOOLEAN, cpuOK : BOOLEAN]

\* OVModelForCausalLM.from_pretrained(..., device=dev): succeeds or raises.
LoadOK(env, dev) == IF dev = "NPU" THEN env.npuOK ELSE env.cpuOK

\* _load_model without the write of config.hardware.device after the CPU fallback
LoadModelNoRecord(env, dev) ==
    IF ~env.tokOK
    THEN [raised |-> TRUE, device |-> dev, model |-> "none", tokenizer |-> FALSE,
          attempts |-> << >>]
    ELSE IF LoadOK(env, dev)
    THEN [raised |-> FALSE, device |-> dev, model |-> dev, tokenizer |-> TRUE,
          attempts |-> << [dev |-> dev, ok |-> TRUE] >>]
    ELSE IF dev = "NPU"
    THEN IF LoadOK(env, "CPU")
         THEN [raised |-> FALSE, device |-> dev, model |-> "CPU", tokenizer |-> TRUE,
               attempts |-> << [dev |-> "NPU", ok |-> FALSE], [dev |-> "CPU", ok |-> TRUE] >>]
         ELSE [raised |-> TRUE, device |-> dev, model |-> "none", tokenizer |-> TRUE,
               attempts |-> << [dev |-> "NPU", ok |-> FALSE], [dev |-> "CPU", ok |-> FALSE] >>]
    ELSE [raised |-> TRUE, device |-> dev, model |-> "none", tokenizer |-> TRUE,
          attempts |-> << [dev |-> dev, ok |-> FALSE] >>]

\* _load_model resetting config.hardware.device to NPU when the load on CPU fails
LoadModelResetDevice(env, dev) ==
    IF ~env.tokOK
    THEN [raised |-> TRUE, device |-> dev, model |-> "none", tokenizer |-> FALSE,
          attempts |-> << >>]
    ELSE IF LoadOK(env, dev)
    THEN [raised |-> FALSE, device |-> dev, model |-> dev, tokenizer |-> TRUE,
          attempts |-> << [dev |-> dev, ok |-> TRUE] >>]
    ELSE IF dev = "NPU"
    THEN IF LoadOK(env, "CPU")
         THEN [raised |-> FALSE, device |-> "CPU", model |-> "CPU", tokenizer |-> TRUE,
               attempts |-> << [dev |-> "NPU", ok |-> FALSE], [dev |-> "CPU", ok |-> TRUE] >>]
         ELSE [raised |-> TRUE, device |-> dev, model |-> "none", tokenizer |-> TRUE,
               attempts |-> << [dev |-> "NPU", ok |-> FALSE], [dev |-> "CPU", ok |-> FALSE] >>]
    ELSE [raised |-> TRUE, device |-> "NPU", model |-> "none", tokenizer |-> TRUE,
          attempts |-> << [dev |-> dev, ok |-> FALSE] >>]

\* _load_model: the tokenizer, then from_pretrained on `dev`; the reshape and
\* compile_model step has its own try/except and never fails the load; when
\* the load on NPU raises, one from_pretrained on CPU, which records CPU as
\* the effective device; any other failure is re-raised.
LoadModel(env, dev) ==
    IF ~env.tokOK
    THEN [raised |-> TRUE, device |-> dev, model |-> "none", tokenizer |-> FALSE,
          attempts |-> << >>]
    ELSE IF LoadOK(env, dev)
    THEN [raised |-> FALSE, device |-> dev, model |-> dev, tokenizer |-> TRUE,
          attempts |-> << [dev |-> dev, ok |-> TRUE] >>]
    ELSE IF dev = "NPU"
    THEN IF LoadOK(env, "CPU")
         THEN [raised |-> FALSE, device |-> "CPU", model |-> "CPU", tokenizer |-> TRUE,
               attempts |-> << [dev |-> "NPU", ok |-> FALSE], [dev |-> "CPU", ok |-> TRUE] >>]
         ELSE [raised |-> TRUE, device |-> dev, model |-> "none", tokenizer |-> TRUE,
               attempts |-> << [dev |-> "NPU", ok |-> FALSE], [dev |-> "CPU", ok |-> FALSE] >>]
    ELSE [raised |-> TRUE, device |-> dev, model |-> "none", tokenizer |-> TRUE,
          attempts |-> << [dev |-> dev, ok |-> FALSE] >>]

\* initialize with is_loaded set before _load_model has returned
EngineInitializeLoadedEarly(ov, env, dev) ==
    IF ~ov
    THEN [ok |-> TRUE, device |-> dev, attempts |-> << >>,
          engine |-> [is_loaded |-> TRUE, model |-> "none", tokenizer |-> FALSE]]
    ELSE LET d0 == IF ~env.npuAvail THEN "CPU" ELSE dev
             r == LoadModel(env, d0)
         IN  [ok |-> ~r.raised, device |-> r.device, attempts |-> r.attempts,
              engine |-> [is_loaded |-> TRUE, model |-> r.model,
                          tokenizer |-> r.tokenizer]]

\* OpenVINOInferenceEngine.initialize, started with config.hardware.device = dev.
\* Result: the return value, the engine's fields and config.hardware.device.
EngineInitialize(ov, env, dev) ==
    IF ~ov
    THEN [ok |-> TRUE, device |-> dev, attempts |-> << >>,
          engine |-> [is_loaded |-> TRUE, model |-> "none", tokenizer |-> FALSE]]
    ELSE LET d0 == IF ~env.npuAvail THEN "CPU" ELSE dev
             r == LoadModel(env, d0)
         IN  [ok |-> ~r.raised, device |-> r.device, attempts |-> r.attempts,
              engine |-> [is_loaded |-> ~r.raised, model |-> r.model,
                          tokenizer |-> r.tokenizer]]

(***************************************************************************)
(* ModelManager                                                            *)
(***************************************************************************)
\* ModelManager._check_system_requirements: low memory only warns; too little
\* free disk (or a failing probe) returns False.
CheckSystemRequirements(env) == env.diskOK

\* lastInit before any pass, and after a pass that never reached the engine.
\* kind tells a startup pass from a reload; prev is the kind and environment
\* of the pass before it.
NoEnv == [diskOK |-> FALSE, npuAvail |-> FALSE, tokOK |-> FALSE, npuOK |-> FALSE,
          cpuOK |-> FALSE]
NoInit == [real |-> FALSE, startDev |-> "NPU", attempts |-> << >>, result |-> FALSE,
           env |-> NoEnv, kind |-> "none", prev |-> [kind |-> "none", env |-> NoEnv]]

\* ModelManager.initialize as one step of the event loop (none of the awaits
\* in it suspends).  eng0 and init0 are inference_engine and is_initialized
\* on entry.
ManagerInitialize(env, eng0, init0) ==
    IF ~CheckSystemRequirements(env)
    THEN /\ is_initialized' = init0
         /\ inference_engine' = eng0
         /\ UNCHANGED << engines, nEngines, hw_device >>
         /\ lastInit' = [NoInit EXCEPT !.startDev = hw_device,
                                       !.kind = IF phase = "boot" THEN "startup" ELSE "reload",
                                       !.prev = [kind |-> lastInit.kind, env |-> lastInit.env]]
    ELSE LET e == nEngines + 1
             r == EngineInitialize(OPENVINO_AVAILABLE, env, hw_device)
         IN  /\ nEngines' = e
             /\ inference_engine' = e
             /\ engines' = [engines EXCEPT ![e] = r.engine]
             /\ hw_device' = r.device
             /\ is_initialized' = (init0 \/ r.ok)
             /\ lastInit' = [real |-> OPENVINO_AVAILABLE, startDev |-> hw_device,
                             attempts |-> r.attempts, result |-> r.ok,
                             env |-> IF OPENVINO_AVAILABLE THEN env
                                     ELSE [NoEnv EXCEPT !.diskOK = TRUE],
                             kind |-> IF phase = "boot" THEN "startup" ELSE "reload",
                             prev |-> [kind |-> lastInit.kind, env |-> lastInit.env]]

\* ModelManager.is_model_ready: the manager is initialized and holds an engine.
IsModelReady == is_initialized /\ inference_engine # 0

\* ModelManager.get_inference_engine
GetInferenceEngine == inference_engine

(***************************************************************************)
(* Status reporting.  A key that a dict does not carry is "absent" (device) *)
(* or FALSE (loaded, simulation_mode).                                     *)
(***************************************************************************)
\* get_model_info that never adds the simulation_mode key
GetModelInfoUnmarked(eng) ==
    IF ~engines[eng].is_loaded
    THEN [loaded |-> FALSE, device |-> "absent", simulation_mode |-> FALSE]
    ELSE [loaded |-> TRUE, device |-> hw_device, simulation_mode |-> FALSE]

\* OpenVINOInferenceEngine.get_model_info
GetModelInfo(eng) ==
    IF ~engines[eng].is_loaded
    THEN [loaded |-> FALSE, device |-> "absent", simulation_mode |-> FALSE]
    ELSE [loaded |-> TRUE, device |-> hw_device,
          simulation_mode |-> ~(OPENVINO_AVAILABLE /\ engines[eng].tokenizer)]

\* ModelManager.get_status (without the memory and cpu figures)
GetStatus ==
    LET info == IF inference_engine # 0 THEN GetModelInfo(inference_engine)
                ELSE [loaded |-> FALSE, device |-> "absent", simulation_mode |-> FALSE]
    IN  [initialized |-> is_initialized,
         model_loaded |-> (inference_engine # 0 /\ engines[inference_engine].is_loaded),
         loaded |-> info.loaded, device |-> info.device,
         simulation_mode |-> info.simulation_mode]

\* GET /health of the chat router
HealthCheck ==
    [status |-> IF GetStatus.initialized THEN "healthy" ELSE "initializing",
     model_loaded |-> GetStatus.model_loaded,
     npu_available |-> (GetStatus.device = "NPU"),
     details |-> GetStatus]

\* ModelManager.get_model_info as main.py calls it: the info of the engine
\* the manager holds; without an engine the call raises.
ManagerGetModelInfo ==
    IF inference_engine # 0
    THEN [raised |-> FALSE, info |-> GetModelInfo(inference_engine)]
    ELSE [raised |-> TRUE,
          info |-> [loaded |-> FALSE, device |-> "absent", simulation_mode |-> FALSE]]

\* GET /health of main.py: "healthy" whenever get_model_info returns,
\* "unhealthy" when it raises; model_loaded is read from the key "is_loaded",
\* which the engine's info does not carry.
MainHealthCheck ==
    IF ManagerGetModelInfo.raised
    THEN [status |-> "unhealthy", model_loaded |-> FALSE, npu_available |-> FALSE]
    ELSE [status |-> "healthy", model_loaded |-> FALSE, npu_available |-> TRUE]

(***************************************************************************)
(* The token sequence of one generation                                    *)
(***************************************************************************)
\* Token ids the backend can return: a plain token, a token whose text
\* begins with "Error:", and the end-of-sequence token.
TokenIds == {"a", "e", "eos"}
eos_token_id == "eos"

\* tokenizer.decode([token_id], skip_special_tokens=True)
Decode(id) == CASE id = "a" -> "a"
                [] id = "e" -> "Error:e"
                [] OTHER -> ""

\* The text of the token yielded when the backend call raises: f"Error: {e}"
ErrorToken == "Error:backend"

Prompts == {"", "hello"}

\* str.split() of the prompt
Words(prompt) == IF prompt = "" THEN << >> ELSE << prompt >>

\* _simulate_generation: every word of the six canned responses, the fifth of
\* which quotes the prompt; max_tokens is not consulted.
SimulateGeneration(prompt, max_tokens) ==
    << "s1", "s2", "s3", "s4", "q" >> \o Words(prompt) \o << "s6" >>

\* All sequences over S of length 1..n
SeqsUpTo(S, n) == UNION { [1..k -> S] : k \in 1..n }

\* What self.model.generate can do with max_new_tokens = n: raise, or return
\* between 1 and n new token ids.
BackendOutcomes(n) ==
    { [failed |-> TRUE, ids |-> << >>] } \cup
    { [failed |-> FALSE, ids |-> ids] : ids \in SeqsUpTo(TokenIds, n) }

NoOutcome == [failed |-> FALSE, ids |-> << >>]

\* The decode loop without the `if token_text` filter
StreamAll(ids) == [i \in 1..Len(ids) |-> Decode(ids[i])]

\* generate_response's decode loop: tokens with empty text are skipped, the
\* loop stops after a yielded end-of-sequence token.
RECURSIVE Stream(_)
Stream(ids) ==
    IF ids = << >> THEN << >>
    ELSE IF Decode(Head(ids)) # ""
         THEN << Decode(Head(ids)) >> \o
              (IF Head(ids) = eos_token_id THEN << >> ELSE Stream(Tail(ids)))
         ELSE Stream(Tail(ids))

\* config.inference.temperature and the limits of ChatRequest; temperatures
\* are counted in tenths.
DefaultTemperature == 7
MaxTokensLimit == 2000
TemperatureLimit == 20

\* The arguments generate_response gives self.model.generate, each
\* `x or self.config.inference.x`.
GenerationKwargs(max_tokens, temperature) ==
    [max_new_tokens |-> OrDefault(max_tokens, DefaultMaxTokens),
     temperature |-> OrDefault(temperature, DefaultTemperature)]

\* ChatRequest's Field constraints on an optional number
InRange(opt, lo, hi) == opt = None \/ (lo <= opt[1] /\ opt[1] <= hi)

\* ChatRequest validation of a request body
ValidChatRequest(m) ==
    /\ m.message # ""
    /\ InRange(m.max_tokens, 1, MaxTokensLimit)
    /\ InRange(m.temperature, 0, TemperatureLimit)

\* The outcomes of the backend call that generate_response on engine `eng`
\* would make: none when it raises first or simulates.
Outcomes(eng, max_tokens) ==
    IF engines[eng].is_loaded /\ OPENVINO_AVAILABLE
    THEN BackendOutcomes(OrDefault(max_tokens, DefaultMaxTokens))
    ELSE { NoOutcome }

\* generate_response up to its first yield: everything it will yield (rest),
\* whether it raised, how often it called the backend and whether that call
\* failed.
GenerateResponse(eng, prompt, max_tokens, out) ==
    IF ~engines[eng].is_loaded
    THEN [raised |-> TRUE, rest |-> << >>, invoked |-> 0, failed |-> FALSE]
    ELSE IF ~OPENVINO_AVAILABLE
    THEN [raised |-> FALSE, rest |-> SimulateGeneration(prompt, max_tokens),
          invoked |-> 0, failed |-> FALSE]
    ELSE IF out.failed
    THEN [raised |-> FALSE, rest |-> << ErrorToken >>, invoked |-> 1, failed |-> TRUE]
    ELSE [raised |-> FALSE, rest |-> Stream(out.ids), invoked |-> 1, failed |-> FALSE]

(***************************************************************************)
(* Sessions, frames and client messages                                    *)
(***************************************************************************)
\* A slot of sess that holds no session yet.
NoSession == [surface |-> "none", ws |-> 0, prompt |-> "", settings |-> "dict",
              max_tokens |-> None, temperature |-> None, kwargs |-> None, engine |-> 0, pc |-> "free", gen |-> "created",
              ids |-> << >>, rest |-> << >>, yielded |-> << >>, invoked |-> 0,
              backendFailed |-> FALSE, token_count |-> 0, inflight |-> FALSE,
              outcome |-> "none", error |-> FALSE, tokens_generated |-> 0]

\* A session is Running from its admission (the generator is created) until
\* its handler has sent the terminal frame or returned the response.
Running(s) == sess[s].pc \in {"pull", "count"}
Terminal(s) == sess[s].pc = "done"
Sessions == 1..nSess

\* The message a websocket client sends: its type, and for a chat message the
\* text, the shape of data.settings and settings.max_tokens.
ChatMsg(message, settings, max_tokens) ==
    [type |-> "message", message |-> message, settings |-> settings,
     max_tokens |-> max_tokens, temperature |-> None, busy |-> FALSE]
OtherMsg(type) ==
    [type |-> type, message |-> "", settings |-> "dict", max_tokens |-> None,
     temperature |-> None, busy |-> FALSE]

\* A chat message whose settings carry max_tokens and temperature.
ChatMsgWith(message, max_tokens, temperature) ==
    [ChatMsg(message, "dict", max_tokens) EXCEPT !.temperature = temperature]

\* An HTTP chat request body.
HttpMsg(message, max_tokens, temperature) ==
    [message |-> message, max_tokens |-> max_tokens, temperature |-> temperature]

\* The client messages of the main specification.
ChatInputs == { ChatMsg("hello", "dict", None), ChatMsg("", "dict", None),
                ChatMsg("hello", "bad", None) }

\* The HTTP chat requests that pass ChatRequest's validation.
HttpInputs == { HttpMsg("hello", None, None) }

\* A frame handed to send_message.  ok records whether send_text delivered it.
Frame(type, sid, token, total) ==
    [type |-> type, sid |-> sid, token |-> token, total |-> total, ok |-> TRUE]

\* send_message in which one dead connection fails the sends to all
SendMessageSharedFate(fr, w, f) ==
    [fr EXCEPT ![w] = Append(@, [f EXCEPT !.ok = (\A x \in WS : transport[x] # "closed")])]

\* WebSocketManager.send_message: send_text delivers the frame, or raises
\* because the connection is closed; the exception is logged and dropped.
SendMessage(fr, w, f) ==
    [fr EXCEPT ![w] = Append(@, [f EXCEPT !.ok = (transport[w] = "open")])]

\* Frames of session s on its websocket, in the order they were sent / delivered.
FramesOf(s) == SelectSeq(frames[sess[s].ws], LAMBDA f : f.sid = s)
Delivered(s) == SelectSeq(FramesOf(s), LAMBDA f : f.ok)
OfType(fs, type) == SelectSeq(fs, LAMBDA f : f.type = type)

Init ==
    /\ phase = "boot"
    /\ OPENVINO_AVAILABLE \in BOOLEAN
    /\ hw_device = "NPU"
    /\ is_initialized = FALSE
    /\ inference_engine = 0
    /\ engines = [e \in EngineIds |-> NewEngine]
    /\ nEngines = 0
    /\ lastInit = NoInit
    /\ active_connections = << >>
    /\ transport = [w \in WS |-> "new"]
    /\ handler = [w \in WS |-> "connect"]
    /\ inbox = [w \in WS |-> << >>]
    /\ frames = [w \in WS |-> << >>]
    /\ sess = [s \in SessionIds |-> NoSession]
    /\ nSess = 0
    /\ nReq = 0

(***************************************************************************)
(* Model lifecycle: startup and reload                                     *)
(***************************************************************************)
\* An environment in which nothing fails.
AllOK == [diskOK |-> TRUE, npuAvail |-> TRUE, tokOK |-> TRUE, npuOK |-> TRUE,
          cpuOK |-> TRUE]

\* The lifespan startup: the model is set up before any request is served.
\* envs is the set of environments the specification lets it meet.
Startup(envs) ==
    /\ phase = "boot"
    /\ phase' = "serving"
    /\ \E env \in envs : ManagerInitialize(env, inference_engine, is_initialized)
    /\ UNCHANGED << OPENVINO_AVAILABLE, active_connections, transport, handler, inbox,
                    frames, sess, nSess, nReq >>

\* reload_model that does not clear is_initialized before initializing again
ReloadKeepsFlag(envs) ==
    /\ phase = "serving"
    /\ nEngines < MaxEngines
    /\ \E env \in envs : ManagerInitialize(env, 0, is_initialized)
    /\ UNCHANGED << phase, OPENVINO_AVAILABLE, active_connections, transport, handler,
                    inbox, frames, sess, nSess, nReq >>

\* reload_model that keeps the engine and the flag it had when the new
\* initialization fails
ReloadKeepsEngine(envs) ==
    /\ phase = "serving"
    /\ nEngines < MaxEngines
    /\ \E env \in envs :
          IF CheckSystemRequirements(env)
             /\ EngineInitialize(OPENVINO_AVAILABLE, env, hw_device).ok
          THEN ManagerInitialize(env, 0, FALSE)
          ELSE /\ lastInit' = [NoInit EXCEPT !.startDev = hw_device, !.kind = "reload",
                                             !.prev = [kind |-> lastInit.kind,
                                                       env |-> lastInit.env]]
               /\ UNCHANGED << hw_device, is_initialized, inference_engine, engines,
                               nEngines >>
    /\ UNCHANGED << phase, OPENVINO_AVAILABLE, active_connections, transport, handler,
                    inbox, frames, sess, nSess, nReq >>

\* POST /model/reload -> ModelManager.reload_model: drop the engine, clear
\* is_initialized, initialize again.  envs is the set of environments the
\* specification lets the pass meet.
Reload(envs) ==
    /\ phase = "serving"
    /\ nEngines < MaxEngines
    /\ \E env \in envs : ManagerInitialize(env, 0, FALSE)
    /\ UNCHANGED << phase, OPENVINO_AVAILABLE, active_connections, transport, handler,
                    inbox, frames, sess, nSess, nReq >>

ReloadModel == Reload(InitEnvs)

(***************************************************************************)
(* The websocket surface                                                   *)
(***************************************************************************)
\* websocket_chat_endpoint -> WebSocketManager.connect
Connect(w) ==
    /\ phase = "serving"
    /\ handler[w] = "connect"
    /\ transport' = [transport EXCEPT ![w] = "open"]
    /\ active_connections' = Append(active_connections, w)
    /\ handler' = [handler EXCEPT ![w] = "recv"]
    /\ UNCHANGED << phase, OPENVINO_AVAILABLE, mgrVars, inbox, frames, sess, nSess, nReq >>

\* The client sends a message; busy records whether a generation of this
\* connection was in flight at that moment.
ClientSend(w, m) ==
    /\ transport[w] = "open"
    /\ nReq < MaxRequests
    /\ nReq' = nReq + 1
    /\ inbox' = [inbox EXCEPT ![w] = Append(@, [m EXCEPT !.busy = (handler[w] = "busy")])]
    /\ UNCHANGED << phase, OPENVINO_AVAILABLE, mgrVars, active_connections, transport,
                    handler, frames, sess, nSess >>

\* The client closes the connection (or it dies).
ClientClose(w) ==
    /\ transport[w] = "open"
    /\ transport' = [transport EXCEPT ![w] = "closed"]
    /\ UNCHANGED << phase, OPENVINO_AVAILABLE, mgrVars, active_connections, handler,
                    inbox, frames, sess, nSess, nReq >>

\* A reply that starts no session: one frame, and back to receive_text.
Reply(w, type, text) ==
    /\ frames' = SendMessage(frames, w, Frame(type, 0, text, 0))
    /\ UNCHANGED << sess, nSess, handler >>

\* handle_chat_message without the empty-message check
HandleChatMessageAnyText(w, m) ==
    IF ~IsModelReady THEN Reply(w, "error", "Model not ready")
    ELSE LET sid == nSess + 1 IN
         /\ nSess' = sid
         /\ sess' = [sess EXCEPT ![sid] =
                        [NoSession EXCEPT !.surface = "ws", !.ws = w,
                                          !.prompt = m.message, !.settings = m.settings,
                                          !.max_tokens = m.max_tokens,
                                          !.temperature = m.temperature,
                                          !.engine = GetInferenceEngine,
                                          !.pc = "pull", !.inflight = m.busy]]
         /\ frames' = SendMessage(frames, w, Frame("start", sid, "", 0))
         /\ handler' = [handler EXCEPT ![w] = "busy"]

\* handle_chat_message up to its first suspension: the readiness check, the
\* empty-message check, get_inference_engine and the start frame.
HandleChatMessage(w, m) ==
    IF ~IsModelReady THEN Reply(w, "error", "Model not ready")
    ELSE IF Words(m.message) = << >> THEN Reply(w, "error", "Empty message")
    ELSE LET sid == nSess + 1 IN
         /\ nSess' = sid
         /\ sess' = [sess EXCEPT ![sid] =
                        [NoSession EXCEPT !.surface = "ws", !.ws = w,
                                          !.prompt = m.message, !.settings = m.settings,
                                          !.max_tokens = m.max_tokens,
                                          !.temperature = m.temperature,
                                          !.engine = GetInferenceEngine,
                                          !.pc = "pull", !.inflight = m.busy]]
         /\ frames' = SendMessage(frames, w, Frame("start", sid, "", 0))
         /\ handler' = [handler EXCEPT ![w] = "busy"]

\* The pong frame for ping message m; inflight remembers whether the ping was
\* sent while a generation of the connection was in flight.
PongFrame(m) ==
    [type |-> "pong", sid |-> 0, token |-> "", total |-> 0, ok |-> TRUE,
     inflight |-> m.busy]

\* A ping handler that answers every ping twice
PongTwice(w, m) ==
    /\ frames' = SendMessage(SendMessage(frames, w, PongFrame(m)), w, PongFrame(m))
    /\ UNCHANGED << sess, nSess, handler >>

\* handle_websocket_message on a ping: one pong frame, and back to receive_text.
Pong(w, m) ==
    /\ frames' = SendMessage(frames, w, PongFrame(m))
    /\ UNCHANGED << sess, nSess, handler >>

\* handle_websocket_message: dispatch on the message type.
HandleWebsocketMessage(w, m) ==
    IF m.type = "message" THEN HandleChatMessage(w, m)
    ELSE IF m.type = "ping" THEN Pong(w, m)
    ELSE Reply(w, "error", "Unknown message type")

\* One turn of websocket_chat_endpoint's loop: receive_text returns the next
\* text message, json.loads parses it, the message is handled.
Receive(w) ==
    /\ handler[w] = "recv"
    /\ inbox[w] # << >>
    /\ Head(inbox[w]).type # "binary"
    /\ IF Head(inbox[w]).type = "badjson"
       THEN Reply(w, "error", "Invalid JSON format")
       ELSE HandleWebsocketMessage(w, Head(inbox[w]))
    /\ inbox' = [inbox EXCEPT ![w] = Tail(@)]
    /\ UNCHANGED << phase, OPENVINO_AVAILABLE, mgrVars, active_connections, transport, nReq >>

\* receive_text raises something other than WebSocketDisconnect (here: the
\* frame received is binary and has no text).  Only WebSocketDisconnect is
\* caught around the loop: the exception leaves the endpoint, which ends
\* without unregistering, and the server closes the connection.
ReceiveRaises(w) ==
    /\ handler[w] = "recv"
    /\ inbox[w] # << >>
    /\ Head(inbox[w]).type = "binary"
    /\ inbox' = [inbox EXCEPT ![w] = Tail(@)]
    /\ handler' = [handler EXCEPT ![w] = "ended"]
    /\ transport' = [transport EXCEPT ![w] = "closed"]
    /\ UNCHANGED << phase, OPENVINO_AVAILABLE, mgrVars, active_connections, frames, sess,
                    nSess, nReq >>

\* WebSocketManager.disconnect: list.remove of the first occurrence, if any.
Disconnect(conns, w) ==
    IF \E i \in 1..Len(conns) : conns[i] = w
    THEN LET i == CHOOSE k \in 1..Len(conns) :
                     conns[k] = w /\ \A j \in 1..(k - 1) : conns[j] # w
         IN  SubSeq(conns, 1, i - 1) \o SubSeq(conns, i + 1, Len(conns))
    ELSE conns

\* receive_text raises WebSocketDisconnect: the endpoint unregisters and ends.
ReceiveDisconnect(w) ==
    /\ handler[w] = "recv"
    /\ inbox[w] = << >>
    /\ transport[w] = "closed"
    /\ active_connections' = Disconnect(active_connections, w)
    /\ handler' = [handler EXCEPT ![w] = "ended"]
    /\ UNCHANGED << phase, OPENVINO_AVAILABLE, mgrVars, transport, inbox, frames, sess,
                    nSess, nReq >>

\* The loop never left: the record keeps pulling after its terminal frame.
FinishedStillPulling(r, outcome) == [r EXCEPT !.outcome = outcome, !.rest = << >>]

\* One pull that takes the tokens from the wrong end of what is left.
PullLast(rest) == [token |-> rest[Len(rest)], rest |-> SubSeq(rest, 1, Len(rest) - 1)]

\* One pull of the generator (`for token in ...generate_response(...)`,
\* `async for token in self.generate_response(...)`): the next token, and
\* what is left to yield.
Pull(rest) == [token |-> Head(rest), rest |-> Tail(rest)]

\* A handler that records the outcome but stays in its loop
FinishedNotLeft(r, outcome) == [r EXCEPT !.outcome = outcome, !.gen = "closed"]

\* The session's record after the handler left handle_chat_message (or
\* generate_single_response returned, or the request was refused).
Finished(r, outcome) == [r EXCEPT !.pc = "done", !.outcome = outcome, !.rest = << >>,
                                  !.gen = "closed"]

\* handle_chat_message's loop header and body up to the send of the token
\* frame: evaluate the settings and create the generator (first time), pull
\* the next token, send it; when the generator is exhausted send the complete
\* frame; when an exception escapes send the error frame.
StreamStep(s) ==
    /\ s \in Sessions
    /\ sess[s].surface = "ws"
    /\ sess[s].pc = "pull"
    /\ LET r == sess[s]
           w == r.ws
           first == r.gen = "created"
       IN  \E out \in (IF first /\ r.settings = "dict"
                       THEN Outcomes(r.engine, r.max_tokens) ELSE { NoOutcome }) :
             LET g == IF first
                      THEN GenerateResponse(r.engine, r.prompt, r.max_tokens, out)
                      ELSE [raised |-> FALSE, rest |-> r.rest, invoked |-> 0,
                            failed |-> r.backendFailed]
                 raised == first /\ (r.settings # "dict" \/ g.raised)
                 r1 == [r EXCEPT !.gen = "running", !.rest = g.rest,
                                 !.ids = IF first THEN out.ids ELSE @,
                                 !.invoked = @ + g.invoked, !.backendFailed = g.failed,
                                 !.kwargs = IF g.invoked = 1
                                            THEN Some(GenerationKwargs(r.max_tokens,
                                                                       r.temperature))
                                            ELSE @]
             IN  /\ IF raised
                    THEN /\ frames' = SendMessage(frames, w, Frame("error", s, "", 0))
                         /\ sess' = [sess EXCEPT ![s] = Finished(r, "error")]
                         /\ handler' = [handler EXCEPT ![w] = "recv"]
                    ELSE IF g.rest = << >>
                    THEN /\ frames' = SendMessage(frames, w,
                                         Frame("complete", s, "", r.token_count))
                         /\ sess' = [sess EXCEPT ![s] = Finished(r1, "complete")]
                         /\ handler' = [handler EXCEPT ![w] = "recv"]
                    ELSE /\ frames' = SendMessage(frames, w,
                                         Frame("token", s, Pull(g.rest).token, 0))
                         /\ sess' = [sess EXCEPT ![s] =
                                        [r1 EXCEPT !.rest = Pull(g.rest).rest,
                                                   !.yielded = Append(@, Pull(g.rest).token),
                                                   !.pc = "count"]]
                         /\ UNCHANGED handler
    /\ UNCHANGED << phase, OPENVINO_AVAILABLE, mgrVars, active_connections, transport,
                    inbox, nSess, nReq >>

\* A loop body whose sleep never returns once the client is gone
CountTokenNeedsClient(s) ==
    /\ s \in Sessions
    /\ sess[s].surface = "ws"
    /\ sess[s].pc = "count"
    /\ transport[sess[s].ws] = "open"
    /\ sess' = [sess EXCEPT ![s].token_count = @ + 1, ![s].pc = "pull"]
    /\ UNCHANGED << phase, OPENVINO_AVAILABLE, mgrVars, wsVars, nSess, nReq >>

\* The rest of the loop body: token_count += 1, then asyncio.sleep(0.01).
CountToken(s) ==
    /\ s \in Sessions
    /\ sess[s].surface = "ws"
    /\ sess[s].pc = "count"
    /\ sess' = [sess EXCEPT ![s].token_count = @ + 1, ![s].pc = "pull"]
    /\ UNCHANGED << phase, OPENVINO_AVAILABLE, mgrVars, wsVars, nSess, nReq >>

(***************************************************************************)
(* The HTTP surface                                                        *)
(***************************************************************************)
\* token.startswith("Error:")
StartsWithError(token) == token \in {"Error:e", ErrorToken}

\* generate_single_response's loop body on the next token of the generator,
\* or its return when the generator is exhausted.
Consume(r) ==
    IF r.rest = << >>
    THEN [Finished(r, "200") EXCEPT !.tokens_generated = r.token_count]
    ELSE IF StartsWithError(Pull(r.rest).token)
    THEN [Finished(r, "500") EXCEPT !.error = TRUE,
                                    !.yielded = Append(@, Pull(r.rest).token)]
    ELSE [r EXCEPT !.rest = Pull(r.rest).rest,
                   !.yielded = Append(@, Pull(r.rest).token),
                   !.token_count = @ + 1, !.pc = "pull"]

\* POST /chat without the is_initialized check of the endpoint
ChatUnchecked(m) ==
    /\ phase = "serving"
    /\ nReq < MaxRequests
    /\ nReq' = nReq + 1
    /\ nSess' = nSess + 1
    /\ LET sid == nSess + 1
           r == [NoSession EXCEPT !.surface = "http", !.prompt = m.message,
                                  !.max_tokens = m.max_tokens,
                                  !.temperature = m.temperature,
                                  !.engine = inference_engine]
       IN  IF ~ValidChatRequest(m)
           THEN sess' = [sess EXCEPT ![sid] = Finished(r, "422")]
           ELSE IF inference_engine = 0
           THEN sess' = [sess EXCEPT ![sid] = Finished(r, "500")]
           ELSE \E out \in Outcomes(inference_engine, m.max_tokens) :
                  LET g == GenerateResponse(inference_engine, m.message, m.max_tokens, out)
                  IN  sess' = [sess EXCEPT ![sid] =
                                 IF g.raised THEN Finished(r, "500")
                                 ELSE Consume([r EXCEPT !.gen = "running", !.rest = g.rest,
                                                        !.ids = out.ids,
                                                        !.invoked = g.invoked,
                                                        !.backendFailed = g.failed,
                                                        !.kwargs =
                                                           IF g.invoked = 1
                                                           THEN Some(GenerationKwargs(
                                                                  m.max_tokens, m.temperature))
                                                           ELSE @])]
    /\ UNCHANGED << phase, OPENVINO_AVAILABLE, mgrVars, wsVars >>

\* POST /chat up to the first suspension: the validation of the request body
\* (422), the is_initialized check (503), the manager's guard, the generator's
\* start and the first token.
Chat(m) ==
    /\ phase = "serving"
    /\ nReq < MaxRequests
    /\ nReq' = nReq + 1
    /\ nSess' = nSess + 1
    /\ LET sid == nSess + 1
           r == [NoSession EXCEPT !.surface = "http", !.prompt = m.message,
                                  !.max_tokens = m.max_tokens,
                                  !.temperature = m.temperature,
                                  !.engine = inference_engine]
       IN  IF ~ValidChatRequest(m)
           THEN sess' = [sess EXCEPT ![sid] = Finished(r, "422")]
           ELSE IF ~is_initialized
           THEN sess' = [sess EXCEPT ![sid] = Finished(r, "503")]
           ELSE IF inference_engine = 0
           THEN sess' = [sess EXCEPT ![sid] = Finished(r, "500")]
           ELSE \E out \in Outcomes(inference_engine, m.max_tokens) :
                  LET g == GenerateResponse(inference_engine, m.message, m.max_tokens, out)
                  IN  sess' = [sess EXCEPT ![sid] =
                                 IF g.raised THEN Finished(r, "500")
                                 ELSE Consume([r EXCEPT !.gen = "running", !.rest = g.rest,
                                                        !.ids = out.ids,
                                                        !.invoked = g.invoked,
                                                        !.backendFailed = g.failed,
                                                        !.kwargs =
                                                           IF g.invoked = 1
                                                           THEN Some(GenerationKwargs(
                                                                  m.max_tokens, m.temperature))
                                                           ELSE @])]
    /\ UNCHANGED << phase, OPENVINO_AVAILABLE, mgrVars, wsVars >>

\* generate_single_response that puts the preferred device back into the
\* configuration while it consumes tokens
ChatStepResetsDevice(s) ==
    /\ s \in Sessions
    /\ sess[s].surface = "http"
    /\ sess[s].pc = "pull"
    /\ sess' = [sess EXCEPT ![s] = Consume(sess[s])]
    /\ hw_device' = "NPU"
    /\ UNCHANGED << phase, OPENVINO_AVAILABLE, is_initialized, inference_engine, engines,
                    nEngines, lastInit, wsVars, nSess, nReq >>

\* generate_single_response after the generator's sleep: the next token.
ChatStep(s) ==
    /\ s \in Sessions
    /\ sess[s].surface = "http"
    /\ sess[s].pc = "pull"
    /\ sess' = [sess EXCEPT ![s] = Consume(sess[s])]
    /\ UNCHANGED << phase, OPENVINO_AVAILABLE, mgrVars, wsVars, nSess, nReq >>

Next ==
    \/ Startup({AllOK})
    \/ \E w \in WS : Connect(w)
    \/ \E w \in WS : \E m \in ChatInputs : ClientSend(w, m)
    \/ \E w \in WS : ClientClose(w)
    \/ \E w \in WS : Receive(w)
    \/ \E w \in WS : ReceiveDisconnect(w)
    \/ \E s \in SessionIds : StreamStep(s)
    \/ \E s \in SessionIds : CountToken(s)
    \/ \E m \in HttpInputs : Chat(m)
    \/ \E s \in SessionIds : ChatStep(s)

Spec == Init /\ [][Next]_vars

\* The model lifecycle under every environment, with HTTP traffic.
NextLifecycle ==
    \/ Startup(InitEnvs)
    \/ ReloadModel
    \/ \E m \in HttpInputs : Chat(m)
    \/ \E s \in SessionIds : ChatStep(s)

SpecLifecycle == Init /\ [][NextLifecycle]_vars

\* Environments of the traffic specification: nothing fails, or the load
\* fails on every device.
LifecycleEnvs == { AllOK, [AllOK EXCEPT !.npuOK = FALSE, !.cpuOK = FALSE] }

\* Startup and reloads that can fail, with traffic on both surfaces.
NextServing ==
    \/ Startup(LifecycleEnvs)
    \/ Reload(LifecycleEnvs)
    \/ Connect(1)
    \/ ClientSend(1, ChatMsg("hello", "dict", None))
    \/ Receive(1)
    \/ \E s \in SessionIds : StreamStep(s)
    \/ \E s \in SessionIds : CountToken(s)
    \/ \E m \in HttpInputs : Chat(m)
    \/ \E s \in SessionIds : ChatStep(s)

SpecServing == Init /\ [][NextServing]_vars

\* The messages of the input specification: a chat message, an empty chat
\* message, text that is not JSON, a message of unknown type, a ping, a
\* binary frame.
InputMsgs ==
    { ChatMsg("hello", "dict", None), ChatMsg("", "dict", None),
      OtherMsg("badjson"), OtherMsg("unknown"), OtherMsg("ping"), OtherMsg("binary") }

\* One websocket client sending every kind of message to a ready server.
NextInput ==
    \/ Startup({AllOK})
    \/ Connect(1)
    \/ \E m \in InputMsgs : ClientSend(1, m)
    \/ ClientClose(1)
    \/ Receive(1)
    \/ ReceiveRaises(1)
    \/ ReceiveDisconnect(1)
    \/ \E s \in SessionIds : StreamStep(s)
    \/ \E s \in SessionIds : CountToken(s)

SpecInput == Init /\ [][NextInput]_vars

\* The event loop resumes a handler whose send or sleep has returned: a
\* streaming session that can take its next step eventually takes it.
FairStreaming ==
    \A s \in SessionIds : WF_vars(StreamStep(s)) /\ WF_vars(CountToken(s))

\* The same client under a fair event loop: a streaming session that can
\* take its next step takes it, and receive_text returns a queued message.
SpecPing == SpecInput /\ FairStreaming /\ WF_vars(Receive(1))

\* One websocket client whose chat messages carry well-formed or ill-formed
\* settings and who may close the connection at any moment.
StreamMsgs == { ChatMsg("hello", "dict", None), ChatMsg("hello", "bad", None) }

NextStream ==
    \/ Startup({AllOK})
    \/ Connect(1)
    \/ \E m \in StreamMsgs : ClientSend(1, m)
    \/ ClientClose(1)
    \/ Receive(1)
    \/ ReceiveDisconnect(1)
    \/ \E s \in SessionIds : StreamStep(s)
    \/ \E s \in SessionIds : CountToken(s)

SpecStream == Init /\ [][NextStream]_vars /\ FairStreaming

\* Settings of the parameter specification: nothing supplied; in-range
\* values; zeros; out-of-range values.
ParamMsgs ==
    { ChatMsgWith("hello", None, None), ChatMsgWith("hello", Some(1), Some(10)),
      ChatMsgWith("hello", Some(0), Some(0)), ChatMsgWith("hello", Some(-1), Some(25)) }
ParamHttpInputs ==
    { HttpMsg("hello", None, None), HttpMsg("hello", Some(1), Some(0)),
      HttpMsg("hello", Some(-1), None), HttpMsg("hello", Some(0), None),
      HttpMsg("hello", None, Some(25)) }

\* One websocket client and HTTP clients supplying generation parameters.
NextParams ==
    \/ Startup({AllOK})
    \/ Connect(1)
    \/ \E m \in ParamMsgs : ClientSend(1, m)
    \/ Receive(1)
    \/ \E s \in SessionIds : StreamStep(s)
    \/ \E s \in SessionIds : CountToken(s)
    \/ \E m \in ParamHttpInputs : Chat(m)
    \/ \E s \in SessionIds : ChatStep(s)

SpecParams == Init /\ [][NextParams]_vars

\* Environments in which the effective device differs: nothing fails; the
\* load on NPU fails; NPU is not among the available devices.
DeviceEnvs ==
    { AllOK, [AllOK EXCEPT !.npuOK = FALSE], [AllOK EXCEPT !.npuAvail = FALSE] }

\* Startup and reloads that end on different devices, with traffic on both
\* surfaces.
NextDevice ==
    \/ Startup(DeviceEnvs)
    \/ Reload(DeviceEnvs)
    \/ Connect(1)
    \/ ClientSend(1, ChatMsg("hello", "dict", None))
    \/ Receive(1)
    \/ \E s \in SessionIds : StreamStep(s)
    \/ \E s \in SessionIds : CountToken(s)
    \/ \E m \in HttpInputs : Chat(m)
    \/ \E s \in SessionIds : ChatStep(s)

SpecDevice == Init /\ [][NextDevice]_vars

\* Environments of the reload specification: nothing fails; too little free
\* disk; the load fails on every device.
ReloadEnvs ==
    { AllOK, [AllOK EXCEPT !.diskOK = FALSE],
      [AllOK EXCEPT !.npuOK = FALSE, !.cpuOK = FALSE] }

\* Reloads that succeed or fail in either way, with traffic on both surfaces.
NextReload ==
    \/ Startup({AllOK})
    \/ Reload(ReloadEnvs)
    \/ Connect(1)
    \/ ClientSend(1, ChatMsg("hello", "dict", None))
    \/ Receive(1)
    \/ \E s \in SessionIds : StreamStep(s)
    \/ \E s \in SessionIds : CountToken(s)
    \/ \E m \in HttpInputs : Chat(m)
    \/ \E s \in SessionIds : ChatStep(s)

SpecReload == Init /\ [][NextReload]_vars

\* Startup and reloads alone, under every environment.
NextInit ==
    \/ Startup(InitEnvs)
    \/ ReloadModel

SpecInit == Init /\ [][NextInit]_vars

(***************************************************************************)
(* Properties                                                              *)
(***************************************************************************)
WsSessions == { s \in Sessions : sess[s].surface = "ws" }
Types(fs) == [i \in 1..Len(fs) |-> fs[i].type]
Tokens(fs) == [i \in 1..Len(fs) |-> fs[i].token]
TokenFrames(s) == OfType(FramesOf(s), "token")
IsPrefix(a, b) == Len(a) <= Len(b) /\ a = SubSeq(b, 1, Len(a))
Repeat(x, n) == [i \in 1..n |-> x]

\* What the engine generates for session s, in generation order.
Generated(s) ==
    IF ~OPENVINO_AVAILABLE THEN SimulateGeneration(sess[s].prompt, sess[s].max_tokens)
    ELSE IF sess[s].backendFailed THEN << ErrorToken >>
    ELSE Stream(sess[s].ids)

\* C1: at most one session is Running on the shared engine at any time.
MutualExclusion == Cardinality({ s \in Sessions : Running(s) }) <= 1

\* C2: sessions are served FIFO: no token of a later request is produced
\* before every earlier request has reached its terminal state.
FifoService ==
    \A a, b \in Sessions :
        (a < b /\ sess[b].yielded # << >>) => Terminal(a)

SecondRequestRejected ==
    \A s \in WsSessions : ~sess[s].inflight

CleanSessions ==
    { s \in WsSessions : sess[s].settings = "dict" /\ ~sess[s].backendFailed }

NonEmptyTokens(s) ==
    IF OPENVINO_AVAILABLE
    THEN Cardinality({ i \in 1..Len(sess[s].ids) : Decode(sess[s].ids[i]) # "" })
    ELSE 6 + Len(Words(sess[s].prompt))

TerminalFrameLast ==
    \A s \in WsSessions :
        LET fs == FramesOf(s)
            T == { i \in 1..Len(fs) : fs[i].type \in {"complete", "error"} }
        IN  /\ Cardinality(T) <= 1
            /\ \A i \in T : i = Len(fs)
            /\ Terminal(s) => T # {}

\* C9 witness: one session ended with an error frame and another with a
\* complete frame after token frames, on a connection that then served again.
TerminalFrameLastWitness ==
    \E s, t \in WsSessions :
        /\ sess[s].outcome = "error" /\ Len(FramesOf(s)) = 2
        /\ sess[t].outcome = "complete" /\ Len(FramesOf(t)) >= 3

\* C10: a real initialization pass that starts with NPU as the configured
\* device, in which loading on NPU fails and loading on CPU succeeds, ends
\* successfully on CPU and attempts NPU at most once.
DeviceFallback ==
    (/\ lastInit.real /\ lastInit.startDev = "NPU"
     /\ lastInit.env.tokOK /\ ~lastInit.env.npuOK /\ lastInit.env.cpuOK)
    => /\ lastInit.result
       /\ is_initialized
       /\ hw_device = "CPU"
       /\ inference_engine # 0
       /\ engines[inference_engine].is_loaded
       /\ engines[inference_engine].model = "CPU"
       /\ Len(SelectSeq(lastInit.attempts, LAMBDA a : a.dev = "NPU")) <= 1

\* C10 witness: NPU was attempted and failed, the CPU fallback loaded.
DeviceFallbackWitness ==
    /\ lastInit.real /\ lastInit.startDev = "NPU"
    /\ lastInit.attempts = << [dev |-> "NPU", ok |-> FALSE], [dev |-> "CPU", ok |-> TRUE] >>
    /\ hw_device = "CPU" /\ is_initialized

\* The device the last real pass loaded on first, and whether every load of
\* that pass's fallback order fails in its environment.
FirstDevice == IF ~lastInit.env.npuAvail THEN "CPU" ELSE lastInit.startDev
EveryDeviceFails ==
    /\ lastInit.real
    /\ lastInit.env.tokOK
    /\ ~LoadOK(lastInit.env, FirstDevice)
    /\ FirstDevice = "NPU" => ~LoadOK(lastInit.env, "CPU")

\* C11: when the load fails on every device of the fallback order, the pass
\* returns False, the engine it built is not marked loaded and the manager is
\* not marked initialized.
ExhaustedFallbackFails ==
    EveryDeviceFails =>
        /\ ~lastInit.result
        /\ ~is_initialized
        /\ inference_engine # 0
        /\ ~engines[inference_engine].is_loaded
        /\ engines[inference_engine].model = "none"

\* C11 witness: NPU and then CPU were attempted and both failed.
ExhaustedFallbackFailsWitness ==
    /\ EveryDeviceFails
    /\ lastInit.attempts = << [dev |-> "NPU", ok |-> FALSE], [dev |-> "CPU", ok |-> FALSE] >>
    /\ ~is_initialized

\* A step that receives a chat message on websocket w / that admits an HTTP
\* chat request.
ReceivesChat(w) ==
    /\ handler[w] = "recv" /\ inbox[w] # << >>
    /\ Head(inbox[w]).type = "message"
    /\ inbox'[w] = Tail(inbox[w])
AdmitsHttpChat == nReq' = nReq + 1 /\ nSess' = nSess + 1

\* C12: a generation request that arrives while the manager is not
\* initialized is rejected as not ready and never reaches the backend: a
\* websocket chat message gets one error frame and no session (no start
\* frame), an HTTP chat ends at once with 503 and no backend call.
NotReadyRejected ==
    [][~is_initialized =>
         /\ \A w \in WS :
               ReceivesChat(w) =>
                  /\ frames'[w] = Append(frames[w],
                                         [Frame("error", 0, "Model not ready", 0)
                                            EXCEPT !.ok = (transport[w] = "open")])
                  /\ sess' = sess /\ nSess' = nSess
                  /\ handler'[w] = "recv"
         /\ AdmitsHttpChat =>
               /\ sess'[nSess'].outcome = "503"
               /\ sess'[nSess'].pc = "done"
               /\ sess'[nSess'].invoked = 0
               /\ sess'[nSess'].yielded = << >>]_vars

\* C12 witness: after a failed reload that followed a successful startup, an
\* HTTP chat was refused with 503 and a websocket chat with "Model not ready".
NotReadyRejectedWitness ==
    /\ ~is_initialized
    /\ lastInit.kind = "reload" /\ lastInit.prev.kind = "startup"
    /\ lastInit.prev.env = AllOK
    /\ \E s \in Sessions : sess[s].outcome = "503"
    /\ \E w \in WS : \E i \in 1..Len(frames[w]) :
          frames[w][i].type = "error" /\ frames[w][i].token = "Model not ready"

\* The engine the manager holds is loaded.
ModelLoaded == inference_engine # 0 /\ engines[inference_engine].is_loaded

\* C13: a reload that directly follows a reload and meets the same
\* environment leaves is_initialized, the loaded state and the effective
\* device as the first reload left them.
ReloadIdempotent ==
    [][(/\ lastInit'.kind = "reload" /\ lastInit'.prev.kind = "reload"
        /\ lastInit'.prev.env = lastInit'.env)
       => /\ is_initialized' = is_initialized
          /\ hw_device' = hw_device
          /\ (inference_engine' # 0 /\ engines'[inference_engine'].is_loaded) = ModelLoaded]_vars

\* C13 witness: two reloads in a row met the same environment, in which the
\* load on NPU fails and the load on CPU succeeds; the second started on CPU.
ReloadIdempotentWitness ==
    /\ lastInit.kind = "reload" /\ lastInit.prev.kind = "reload"
    /\ lastInit.prev.env = lastInit.env
    /\ lastInit.real /\ lastInit.env.npuAvail /\ ~lastInit.env.npuOK
    /\ lastInit.startDev = "CPU" /\ hw_device = "CPU"
    /\ is_initialized /\ ModelLoaded /\ nEngines = MaxEngines

\* C14: a reload that finds NPU among the available devices attempts the
\* preferred device NPU first, whatever device an earlier pass fell back to,
\* and builds a new engine.
ReloadStartsOnPreferred ==
    (/\ lastInit.kind = "reload" /\ lastInit.real
     /\ lastInit.env.npuAvail /\ lastInit.env.tokOK)
    => /\ lastInit.attempts # << >>
       /\ lastInit.attempts[1].dev = "NPU"
       /\ inference_engine = nEngines

\* C15: while a session that started on the manager's engine is Running, no
\* step replaces or drops that engine or clears is_initialized.
ReloadRefusedWhileRunning ==
    [][(\E s \in SessionIds : Running(s) /\ sess[s].engine = inference_engine)
       => /\ inference_engine' = inference_engine
          /\ is_initialized' = is_initialized]_vars

\* Session s can take its next step.
CanStep(s) == ENABLED (StreamStep(s) \/ CountToken(s) \/ ChatStep(s))

\* C16: a backend failure inside a session leaves the shared engine as it
\* was (initialized, loaded, same device); the failing session ends, which
\* frees its connection for the next request; and every other session that
\* is still running can go on to its terminal frame.
BackendFailureContained ==
    \A s \in Sessions :
        sess[s].backendFailed =>
            /\ is_initialized /\ ModelLoaded
            /\ sess[s].engine = inference_engine
            /\ hw_device = lastInit.startDev
            /\ sess[s].outcome # "none" <=> Terminal(s)
            /\ (sess[s].surface = "ws" /\ handler[sess[s].ws] = "busy")
                  => \E t \in WsSessions : sess[t].ws = sess[s].ws /\ Running(t)
            /\ \A t \in Sessions : Running(t) => CanStep(t)

\* C16 witness: the backend failed in a session that has ended; the next
\* request on the same connection was served to completion with tokens, while
\* the engine is still initialized and loaded.
BackendFailureContainedWitness ==
    \E s, t \in WsSessions :
        /\ s < t /\ sess[s].ws = sess[t].ws
        /\ sess[s].backendFailed /\ Terminal(s)
        /\ ~sess[t].backendFailed /\ sess[t].outcome = "complete"
        /\ Len(OfType(Delivered(t), "token")) >= 1
        /\ is_initialized /\ ModelLoaded

HttpSessions == { s \in Sessions : sess[s].surface = "http" }

\* A streaming session and a batch session that got the same prompt, the same
\* parameters and the same backend behaviour, both ended.
SameRequest(s, t) ==
    /\ Terminal(s) /\ Terminal(t)
    /\ sess[s].settings = "dict"
    /\ sess[s].prompt = sess[t].prompt
    /\ sess[s].max_tokens = sess[t].max_tokens
    /\ sess[s].engine = sess[t].engine
    /\ sess[s].ids = sess[t].ids
    /\ sess[s].backendFailed = sess[t].backendFailed

ErrorIffBackendFailed ==
    \A t \in HttpSessions :
        (Terminal(t) /\ sess[t].invoked > 0) =>
            (sess[t].error <=> sess[t].backendFailed)

\* C19: whenever the engine is loaded without a real backend, the status and
\* health reports carry the simulation marker, and the reports of a really
\* loaded model never carry it: the two are never the same report.
SimulationDistinguishable ==
    /\ (ModelLoaded /\ ~OPENVINO_AVAILABLE) =>
          /\ GetStatus.simulation_mode
          /\ HealthCheck.details.simulation_mode
    /\ (ModelLoaded /\ OPENVINO_AVAILABLE) =>
          /\ ~GetStatus.simulation_mode
          /\ ~HealthCheck.details.simulation_mode

\* C19 witness: in simulation mode the health report says healthy, loaded and
\* NPU available, as a real model on NPU would, and carries the marker.
SimulationDistinguishableWitness ==
    /\ ~OPENVINO_AVAILABLE /\ ModelLoaded
    /\ HealthCheck.status = "healthy" /\ HealthCheck.model_loaded
    /\ HealthCheck.npu_available
    /\ HealthCheck.details.simulation_mode

\* Session s was handed a frame that could not be sent.
SendFailed(s) == \E i \in 1..Len(FramesOf(s)) : ~FramesOf(s)[i].ok

\* C20: a failed send is confined to the dead connection and stops no
\* handler: only frames for a closed connection fail; the session whose send
\* failed runs on to its terminal frame; every running session can take its
\* next step; a connection is busy only while a session runs on it.
SendFailureContained ==
    /\ \A w \in WS : \A i \in 1..Len(frames[w]) :
          ~frames[w][i].ok => transport[w] = "closed"
    /\ \A s \in WsSessions :
          /\ Running(s) => CanStep(s)
          /\ (SendFailed(s) /\ ~Running(s)) =>
                /\ Terminal(s)
                /\ FramesOf(s)[Len(FramesOf(s))].type \in {"complete", "error"}
    /\ \A w \in WS :
          handler[w] = "busy" <=> \E s \in WsSessions : sess[s].ws = w /\ Running(s)

\* C20 witness: the sends of one session failed and its handler still ran to
\* the complete frame; a later session of another client was delivered whole.
SendFailureContainedWitness ==
    \E s, t \in WsSessions :
        /\ s < t /\ sess[s].ws # sess[t].ws
        /\ SendFailed(s) /\ sess[s].outcome = "complete"
        /\ sess[t].outcome = "complete"
        /\ Delivered(t) = FramesOf(t)
        /\ Len(TokenFrames(t)) >= 1

\* Websocket w is in the registry.
Registered(w) == \E i \in 1..Len(active_connections) : active_connections[i] = w

\* C21: after a failed send to a websocket, that websocket is no longer in
\* active_connections and the session the frame belonged to is not running.
SendFailureCleansUp ==
    \A w \in WS : \A i \in 1..Len(frames[w]) :
        ~frames[w][i].ok =>
            /\ ~Registered(w)
            /\ frames[w][i].sid # 0 => ~Running(frames[w][i].sid)

\* Client input that is rejected as malformed: text that is not JSON, an
\* unknown message type, a chat message that is empty after strip().
Malformed(m) ==
    \/ m.type \in {"badjson", "unknown"}
    \/ m.type = "message" /\ Words(m.message) = << >>

\* C22: receiving a malformed message sends exactly one error frame, starts
\* no session, calls no backend, and leaves the connection registered with
\* its handler back at receive_text, ready for the next message.
MalformedRejected ==
    [][\A w \in WS :
          (/\ handler[w] = "recv" /\ inbox[w] # << >>
           /\ Malformed(Head(inbox[w]))
           /\ inbox'[w] = Tail(inbox[w]))
          => /\ Len(frames'[w]) = Len(frames[w]) + 1
             /\ SubSeq(frames'[w], 1, Len(frames[w])) = frames[w]
             /\ frames'[w][Len(frames'[w])].type = "error"
             /\ frames'[w][Len(frames'[w])].sid = 0
             /\ sess' = sess /\ nSess' = nSess
             /\ handler'[w] = "recv"
             /\ active_connections' = active_connections
             /\ transport' = transport]_vars

\* C22 witness: on an open connection an error frame for malformed input was
\* delivered, and the next message was served to its complete frame.
MalformedRejectedWitness ==
    \E w \in WS : \E i, j \in 1..Len(frames[w]) :
        /\ transport[w] = "open" /\ i < j
        /\ frames[w][i].type = "error" /\ frames[w][i].ok
        /\ frames[w][i].token \in {"Invalid JSON format", "Unknown message type",
                                   "Empty message"}
        /\ frames[w][j].type = "complete" /\ frames[w][j].ok
        /\ frames[w][j].total >= 1

SuppliedOrDefault ==
    \A s \in Sessions :
        sess[s].kwargs # None =>
            /\ sess[s].kwargs[1].max_new_tokens =
                  (IF sess[s].max_tokens = None THEN DefaultMaxTokens
                   ELSE sess[s].max_tokens[1])
            /\ sess[s].kwargs[1].temperature =
                  (IF sess[s].temperature = None THEN DefaultTemperature
                   ELSE sess[s].temperature[1])

\* C24: every initialization pass, whatever the memory and disk readings,
\* goes on to construct and initialize an engine.
TelemetryNeverGates ==
    lastInit.kind # "none" =>
        /\ inference_engine # 0
        /\ inference_engine = nEngines

\* C25: config.hardware.device changes only in a step that is an
\* initialization pass (startup or reload), which builds a new engine and
\* touches no session and no frame; no step of a generation request changes it.
DeviceOnlyChangedByInit ==
    [][hw_device' # hw_device =>
          /\ nEngines' = nEngines + 1
          /\ lastInit'.kind \in {"startup", "reload"}
          /\ lastInit'.startDev = hw_device
          /\ sess' = sess /\ frames' = frames]_vars

\* C25 witness: requests were served on an engine loaded on NPU and, after a
\* reload that fell back, on an engine loaded on CPU.
DeviceOnlyChangedByInitWitness ==
    \E s, t \in Sessions :
        /\ Terminal(s) /\ Terminal(t)
        /\ sess[s].yielded # << >> /\ sess[t].yielded # << >>
        /\ sess[s].engine # 0 /\ engines[sess[s].engine].model = "NPU"
        /\ sess[t].engine # 0 /\ engines[sess[t].engine].model = "CPU"
        /\ hw_device = "CPU" /\ lastInit.kind = "reload"

\* C27: the manager is marked initialized exactly when the engine it
\* references exists and is loaded.  initialize and reload_model contain no
\* suspending await, so concurrent calls run one after the other.
InitializedIffLoaded == is_initialized <=> ModelLoaded

\* C27 witness: a reload failed on every device and the reload that followed
\* it succeeded; the manager is initialized on the third engine.
InitializedIffLoadedWitness ==
    /\ lastInit.kind = "reload" /\ lastInit.prev.kind = "reload"
    /\ lastInit.real /\ lastInit.result
    /\ lastInit.prev.env.tokOK /\ ~lastInit.prev.env.npuOK /\ ~lastInit.prev.env.cpuOK
    /\ lastInit.prev.env.npuAvail /\ lastInit.prev.env.diskOK
    /\ is_initialized /\ ModelLoaded /\ inference_engine = MaxEngines

Registrations(w) ==
    Cardinality({ i \in 1..Len(active_connections) : active_connections[i] = w })

\* C29: a websocket is in active_connections at most once, only after its
\* connect, and no longer once its endpoint handler has ended, whether by a
\* client disconnect or by any other exception from receiving.
RegistryExact ==
    \A w \in WS :
        /\ Registrations(w) <= 1
        /\ handler[w] = "connect" => ~Registered(w)
        /\ handler[w] = "ended" => ~Registered(w)

\* C30: whenever status reports a device, the manager's engine holds a model
\* loaded on that device; health reports npu_available only when a model
\* runs on NPU.
DeviceReportTruthful ==
    /\ GetStatus.device # "absent" =>
          /\ inference_engine # 0
          /\ engines[inference_engine].model = GetStatus.device
    /\ HealthCheck.npu_available =>
          /\ inference_engine # 0
          /\ engines[inference_engine].model = "NPU"

\* C31: while the manager is not initialized (before startup, after a pass in
\* which every device failed, after a failed reload) neither health endpoint
\* reports "healthy" and both report model_loaded false.
HealthyOnlyIfInitialized ==
    ~is_initialized =>
        /\ HealthCheck.status # "healthy" /\ ~HealthCheck.model_loaded
        /\ MainHealthCheck.status # "healthy" /\ ~MainHealthCheck.model_loaded

\* A step of the serving phase that is a reload pass: nothing else writes the
\* manager's state.
ReloadStep == phase = "serving" /\ mgrVars' # mgrVars

\* C32: a reload drops the engine the manager held, whatever follows; when
\* its initialization fails the manager ends uninitialized, holding no loaded
\* engine; while the manager is uninitialized no request becomes a running
\* session or reaches the backend; and only a reload that succeeds makes the
\* manager initialized again.
ReloadNotTransactional ==
    [][/\ ReloadStep =>
             /\ inference_engine' = 0 \/ inference_engine' > nEngines
             /\ ~lastInit'.result => ~is_initialized' /\ ~ModelLoaded'
       /\ ~is_initialized =>
             \A s \in SessionIds :
                sess[s].pc = "free" =>
                   /\ sess'[s].pc \in {"free", "done"}
                   /\ sess'[s].outcome \in {"none", "503"}
                   /\ sess'[s].invoked = 0 /\ sess'[s].yielded = << >>
       /\ (phase = "serving" /\ ~is_initialized /\ is_initialized') =>
             /\ lastInit'.kind = "reload" /\ lastInit'.result
             /\ inference_engine' = nEngines + 1]_vars

\* C32 witness: a session was served on the first engine, which is still
\* loaded; a reload failed and a request was refused with 503; the reload
\* after it succeeded and the manager serves from the third engine.
ReloadNotTransactionalWitness ==
    /\ is_initialized /\ inference_engine = 3
    /\ lastInit.kind = "reload" /\ lastInit.prev.kind = "reload"
    /\ lastInit.prev.env # AllOK
    /\ engines[1].is_loaded /\ ~engines[2].is_loaded
    /\ \E s, t \in Sessions :
          /\ sess[s].engine = 1 /\ sess[s].yielded # << >>
          /\ sess[t].outcome = "503"

\* The last frame sent for session s is its complete or its error frame.
EndedByTerminalFrame(s) ==
    /\ FramesOf(s) # << >>
    /\ FramesOf(s)[Len(FramesOf(s))].type \in {"complete", "error"}

\* C33: every streaming session that has sent its start frame eventually
\* ends: its handler sends a complete or an error frame and is back at
\* receive_text, whether or not the client is still connected.
StreamingTerminates ==
    \A s \in SessionIds :
        (sess[s].surface = "ws" /\ Running(s))
            ~> (/\ sess[s].surface = "ws" /\ Terminal(s)
                /\ EndedByTerminalFrame(s)
                /\ handler[sess[s].ws] = "recv")

\* C33 witness: one session ended with an error frame; in the next the
\* client's connection died during the stream (the start
\* frame was delivered, a later token frame was not) and the session still
\* ended with its complete frame, the handler back at receive_text.
StreamingTerminatesWitness ==
    \E s \in WsSessions :
        /\ Terminal(s) /\ sess[s].outcome = "complete"
        /\ transport[sess[s].ws] = "closed"
        /\ handler[sess[s].ws] = "recv"
        /\ \E t \in WsSessions : sess[t].outcome = "error"
        /\ FramesOf(s)[1].type = "start" /\ FramesOf(s)[1].ok
        /\ \E i \in 1..Len(FramesOf(s)) :
              FramesOf(s)[i].type = "token" /\ ~FramesOf(s)[i].ok

\* _simulate_generation's own default, `max_tokens or 100`
SimDefaultMaxTokens == 100

\* The effective max_tokens of session s: the caller's value, or the default
\* of the mode when none was supplied.
EffectiveMaxTokens(s) ==
    IF sess[s].max_tokens # None THEN sess[s].max_tokens[1]
    ELSE IF OPENVINO_AVAILABLE THEN DefaultMaxTokens ELSE SimDefaultMaxTokens

\* C34: in real and in simulation mode, a generation never yields more
\* tokens than its effective max_tokens.
TokensWithinMax ==
    \A s \in Sessions :
        sess[s].yielded # << >> => Len(sess[s].yielded) <= EffectiveMaxTokens(s)

\* A step in which the endpoint of websocket w receives a ping.
ReceivesPing(w) ==
    /\ handler[w] = "recv" /\ inbox[w] # << >>
    /\ Head(inbox[w]).type = "ping"
    /\ inbox'[w] = Tail(inbox[w])

Pongs(fs) == Len(OfType(fs, "pong"))

\* C35: the step that receives a ping sends exactly one pong frame, delivered
\* when the connection is open, and starts no session; no other step sends a
\* pong; a ping is received only when no generation of its connection is
\* running, so its pong is sent after the terminal frame of the generation
\* that was in flight and never between the frames of a session; and a ping
\* that is next in line on a connection whose endpoint has not ended is
\* eventually answered.
PingAnsweredInOrder ==
    /\ \A w \in WS : \A n \in 0..MaxRequests :
          (/\ handler[w] \in {"recv", "busy"} /\ inbox[w] # << >>
           /\ Head(inbox[w]).type = "ping" /\ Pongs(frames[w]) = n)
              ~> (Pongs(frames[w]) = n + 1)
    /\ [][\A w \in WS :
          /\ ReceivesPing(w) =>
                /\ frames'[w] = Append(frames[w],
                                       [PongFrame(Head(inbox[w]))
                                          EXCEPT !.ok = (transport[w] = "open")])
                /\ sess' = sess /\ nSess' = nSess /\ handler'[w] = "recv"
                /\ \A s \in Sessions :
                      sess[s].ws = w => Terminal(s) /\ EndedByTerminalFrame(s)
          /\ Pongs(frames'[w]) # Pongs(frames[w]) => ReceivesPing(w)
          /\ \A i \in 1..Len(frames'[w]) :
                frames'[w][i].type = "pong" =>
                   ~(\E j \in 1..(i - 1) : \E k \in (i + 1)..Len(frames'[w]) :
                        frames'[w][j].sid # 0
                        /\ frames'[w][j].sid = frames'[w][k].sid)]_vars

\* C35 witness: a ping sent while a generation was in flight was answered on
\* the open connection by one delivered pong, the frame right after that
\* generation's delivered complete frame, which followed token frames.
PingAnsweredInOrderWitness ==
    \E w \in WS : \E i \in 3..Len(frames[w]) :
        /\ transport[w] = "open"
        /\ frames[w][i].type = "pong" /\ frames[w][i].inflight /\ frames[w][i].ok
        /\ frames[w][i - 1].type = "complete" /\ frames[w][i - 1].ok
        /\ frames[w][i - 2].type = "token"
        /\ Pongs(frames[w]) = 1

====
